---- MODULE Spec2Model ----
(***************************************************************************)
(* The buffer cache of kernel/bio.c: NBUF buffers kept on NBUCKET singly   *)
(* linked bucket lists (field out), one spinlock per bucket, one sleeplock *)
(* per buffer.  Processes call bread, bwrite, brelse, bpin and bunpin      *)
(* concurrently; every step of the model is a piece of one of these        *)
(* functions between two lock operations.                                  *)
(***************************************************************************)
EXTENDS Integers, Sequences, FiniteSets, TLC

\* ---- program constants (param.h, not part of kernel/bio.c) ----
NBUF == 4
NBUCKET == 3

\* ---- bounds of the model ----
NPROC == 2          \* processes calling into the cache
MaxDev == 1         \* devices 0..MaxDev
MaxBlockno == 2     \* block numbers 0..MaxBlockno
MaxPin == 1         \* outstanding bpin credits per buffer
MaxProbed == 12   \* block numbers 0..MaxProbed in the check of the probe sequence

NIL == 0
Bufs == 1..NBUF
Buckets == 0..(NBUCKET - 1)
Procs == 1..NPROC
Devs == 0..MaxDev
Blocknos == 0..MaxBlockno

VARIABLES
    locks,      \* bcache.locks[k]: the process holding the spinlock, or NIL
    headout,    \* bcache.head[k].out: first buffer of bucket k, or NIL
    out,        \* buf.out: next buffer on the bucket list, or NIL
    dev,        \* buf.dev
    blockno,    \* buf.blockno
    valid,      \* buf.valid (0 or 1)
    refcnt,     \* buf.refcnt
    sleeplk,    \* buf.lock: the process holding the sleeplock, or NIL
    data,       \* buf.data: the <<dev, blockno>> it was read from, or <<>>
    pc,         \* where each process is
    adev,       \* bget's argument dev
    ablk,       \* bget's argument blockno
    b,          \* the local variable / argument b of the running function
    i,          \* bget's loop variable i
    panicked,   \* "" or the message of the panic that halted the kernel
    nreads,     \* virtio_disk_rw(b, 0) calls on the buffer since it was tagged
    pins,       \* bpin calls on the buffer not yet claimed by a bunpin
    uses,       \* <<t, s, d, n>>: bget(d, n) returned s to t, not yet brelse'd
    todo,       \* the blocks <<dev, blockno>> each process may ask for
    load        \* the callers of this run: see Load

bufvars == <<headout, out, dev, blockno, valid, refcnt, sleeplk, data>>
locals == <<pc, adev, ablk, b, i>>
ghost == <<nreads, pins, uses>>
vars == <<locks, bufvars, locals, panicked, ghost, todo, load>>

\* hash(x): the bucket of block number x.
hash(x) == x % NBUCKET

\* The buffers reached from e by following out, in order.
RECURSIVE Chain(_, _)
Chain(e, fuel) ==
    IF e = NIL \/ fuel = 0 THEN <<>> ELSE <<e>> \o Chain(out[e], fuel - 1)

\* for(b = bcache.head[k].out; b != 0; b = b->out)
BucketList(k) == Chain(headout[k], NBUF + 1)

InBucket(e, k) == \E j \in 1..Len(BucketList(k)) : BucketList(k)[j] = e

\* The first buffer of list L that is in the set Pass, or NIL.
FirstIn(L, Pass) ==
    LET I == {j \in 1..Len(L) : L[j] \in Pass}
    IN IF I = {} THEN NIL ELSE L[CHOOSE j \in I : \A m \in I : j <= m]

\* FirstCached as it would be if the loop took only referenced buffers.
FirstCachedInUse(k, d, n) ==
    FirstIn(BucketList(k),
            {e \in Bufs : dev[e] = d /\ blockno[e] = n /\ refcnt[e] > 0})

\* bget's first loop: the first buffer of the bucket with dev and blockno.
FirstCached(k, d, n) ==
    FirstIn(BucketList(k), {e \in Bufs : dev[e] = d /\ blockno[e] = n})

\* FirstFree as it would be without the test of refcnt.
FirstFreeAny(k) == FirstIn(BucketList(k), Bufs)

\* bget's second and third loops: the first buffer of bucket k with refcnt 0.
FirstFree(k) == FirstIn(BucketList(k), {e \in Bufs : refcnt[e] = 0})

\* put as it would be without val->out = bkt->out.
putNoLink(key, val) ==
    /\ out' = [out EXCEPT ![val] = NIL]
    /\ headout' = [headout EXCEPT ![hash(key)] = val]

\* put(key, val): push val on the list of bucket hash(key).
put(key, val) ==
    /\ out' = [out EXCEPT ![val] = headout[hash(key)]]
    /\ headout' = [headout EXCEPT ![hash(key)] = val]

\* remove(b)'s loop, at e with trailing pointer pre: the lists it leaves.
RECURSIVE RemoveWalk(_, _, _, _)
RemoveWalk(bb, e, pre, fuel) ==
    IF e = NIL \/ fuel = 0
    THEN [h |-> headout, o |-> out]
    ELSE IF e = bb
         THEN IF pre = e
              THEN [h |-> [headout EXCEPT ![hash(blockno[bb])] = out[e]],
                    o |-> [out EXCEPT ![e] = NIL]]
              ELSE [h |-> headout,
                    o |-> [[out EXCEPT ![pre] = out[e]] EXCEPT ![e] = NIL]]
         ELSE RemoveWalk(bb, out[e], IF pre # e THEN out[pre] ELSE pre, fuel - 1)

\* remove(b): unlink b from the list of bucket hash(b->blockno).
remove(bb) ==
    LET r == RemoveWalk(bb, headout[hash(blockno[bb])],
                        headout[hash(blockno[bb])], NBUF + 1)
    IN /\ headout' = r.h
       /\ out' = r.o

\* acquire(&bcache.locks[k]) by process t: spins until the lock is free.
acquire(k, t) == locks[k] = NIL /\ locks' = [locks EXCEPT ![k] = t]

\* release(&bcache.locks[k])
release(k) == locks' = [locks EXCEPT ![k] = NIL]

\* holdingsleep(&b->lock) called by process t
holdingsleep(bb, t) == sleeplk[bb] = t

panic(msg) == panicked' = msg

\* Process t of this run can take a step: the kernel has not panicked.
Running(t) == panicked = "" /\ t \in load.procs

\* The function returns to its caller: the locals are dead.
Return(t) ==
    /\ pc' = [pc EXCEPT ![t] = "idle"]
    /\ adev' = [adev EXCEPT ![t] = 0]
    /\ ablk' = [ablk EXCEPT ![t] = 0]
    /\ b' = [b EXCEPT ![t] = NIL]
    /\ i' = [i EXCEPT ![t] = 0]

Goto(t, l) == pc' = [pc EXCEPT ![t] = l]

\* The buffers process t keeps locked.
Held(t) == {s \in Bufs : sleeplk[s] = t}

\* binit: every lock free, every buffer zeroed and put on bucket hash(0).
BinitState ==
    /\ locks = [k \in Buckets |-> NIL]
    /\ headout = [k \in Buckets |-> IF k = hash(0) THEN NBUF ELSE NIL]
    /\ out = [s \in Bufs |-> s - 1]
    /\ dev = [s \in Bufs |-> 0]
    /\ blockno = [s \in Bufs |-> 0]
    /\ valid = [s \in Bufs |-> 0]
    /\ refcnt = [s \in Bufs |-> 0]
    /\ sleeplk = [s \in Bufs |-> NIL]
    /\ data = [s \in Bufs |-> <<>>]
    /\ pc = [t \in Procs |-> "idle"]
    /\ adev = [t \in Procs |-> 0]
    /\ ablk = [t \in Procs |-> 0]
    /\ b = [t \in Procs |-> NIL]
    /\ i = [t \in Procs |-> 0]
    /\ panicked = ""
    /\ nreads = [s \in Bufs |-> 0]
    /\ pins = [s \in Bufs |-> 0]
    /\ uses = {}

\* The callers of a run: the processes, how many buffers each keeps locked at
\* once, whether a process asks for blocks again and again (if not, it asks
\* for each of its blocks once and releases none before it has asked for
\* all), the blocks they pin, and whether they pass buffers they do not hold
\* to bwrite and brelse.
Load(P, l, a, pin, c) ==
    [procs |-> P, limit |-> l, again |-> a, pin |-> pin, careless |-> c]

\* Device 0 has the blocks 0..MaxBlockno, the other devices block 0 only.
Disk == {p \in Devs \X Blocknos : p[1] = 0 \/ p[2] = 0}

\* Concurrent processes that keep the contract, each using one buffer at a
\* time, all asking for the same blocks again and again.
Init ==
    /\ BinitState
    /\ todo = [t \in Procs |-> Disk]
    /\ load = Load(Procs, 1, TRUE, Disk, FALSE)

\* Two processes that keep several buffers locked: each asks once for two
\* blocks of bucket hash(0) and for one block of another bucket.
InitSteal ==
    /\ BinitState
    /\ todo = [t \in Procs |->
                 IF t = 1 THEN {<<0, 0>>, <<0, NBUCKET>>, <<0, 1>>}
                          ELSE {<<1, 0>>, <<1, NBUCKET>>, <<0, 2>>}]
    /\ load = Load(Procs, NBUF - 1, FALSE, {<<0, 0>>}, FALSE)

\* One process that keeps up to NBUF buffers locked and asks for NBUF + 1
\* blocks of device 0: the blocks 0..NBUF, or blocks that all hash to the
\* bucket after hash(0).
InitPool ==
    /\ BinitState
    /\ \E B \in {0..NBUF, {1 + k * NBUCKET : k \in 0..NBUF}} :
          todo = [t \in Procs |-> {0} \X B]
    /\ load = Load({1}, NBUF + 1, TRUE, {<<0, 0>>, <<0, 1>>}, FALSE)

\* Concurrent processes that pass any buffer to bwrite and brelse.
InitMisuse ==
    /\ BinitState
    /\ todo = [t \in Procs |-> {<<0, 0>>, <<1, 0>>, <<0, 1>>}]
    /\ load = Load(Procs, 1, TRUE, {<<0, 0>>}, TRUE)

\* ---------------------------------------------------------------- bread
\* bread(d, n) is called for a block the caller does not keep locked already;
\* bget line 101: acquire the lock of the block's bucket.
BgetAcquire(t, d, n) ==
    /\ Running(t) /\ pc[t] = "idle"
    /\ <<d, n>> \in todo[t]
    /\ todo' = IF load.again THEN todo ELSE [todo EXCEPT ![t] = @ \ {<<d, n>>}]
    /\ Cardinality(Held(t)) < load.limit
    /\ \A s \in Held(t) : ~(dev[s] = d /\ blockno[s] = n)
    /\ acquire(hash(n), t)
    /\ pc' = [pc EXCEPT ![t] = "scan"]
    /\ adev' = [adev EXCEPT ![t] = d]
    /\ ablk' = [ablk EXCEPT ![t] = n]
    /\ UNCHANGED <<bufvars, b, i, panicked, ghost, load>>

\* Retag as it would be without b->valid = 0.
RetagKeepValid(e, d, n) ==
    /\ dev' = [dev EXCEPT ![e] = d]
    /\ blockno' = [blockno EXCEPT ![e] = n]
    /\ refcnt' = [refcnt EXCEPT ![e] = 1]
    /\ nreads' = [nreads EXCEPT ![e] = 0]
    /\ UNCHANGED valid

\* b->dev = dev; b->blockno = blockno; b->valid = 0; b->refcnt = 1;
Retag(e, d, n) ==
    /\ dev' = [dev EXCEPT ![e] = d]
    /\ blockno' = [blockno EXCEPT ![e] = n]
    /\ valid' = [valid EXCEPT ![e] = 0]
    /\ refcnt' = [refcnt EXCEPT ![e] = 1]
    /\ nreads' = [nreads EXCEPT ![e] = 0]

\* BgetHit as it would be without b->refcnt++.
BgetHitNoRef(t, e) ==
    /\ b' = [b EXCEPT ![t] = e]
    /\ release(hash(ablk[t]))
    /\ Goto(t, "acquiresleep")
    /\ UNCHANGED <<dev, blockno, valid, refcnt, nreads, i>>

\* bget lines 105-108: the block is cached in buffer e.
BgetHit(t, e) ==
    /\ refcnt' = [refcnt EXCEPT ![e] = @ + 1]
    /\ b' = [b EXCEPT ![t] = e]
    /\ release(hash(ablk[t]))
    /\ Goto(t, "acquiresleep")
    /\ UNCHANGED <<dev, blockno, valid, nreads, i>>

\* BgetReuse as it would be without the release at line 123.
BgetReuseKeepLock(t, e) ==
    /\ Retag(e, adev[t], ablk[t])
    /\ b' = [b EXCEPT ![t] = e]
    /\ Goto(t, "acquiresleep")
    /\ UNCHANGED <<locks, i>>

\* bget lines 116-123: buffer e of the same bucket has refcnt 0.
BgetReuse(t, e) ==
    /\ Retag(e, adev[t], ablk[t])
    /\ b' = [b EXCEPT ![t] = e]
    /\ release(hash(ablk[t]))
    /\ Goto(t, "acquiresleep")
    /\ UNCHANGED i

\* BgetMiss as it would be if bget gave up the bucket's lock before the steal
\* loop (the lock is then not held while buckets are probed).
BgetMissUnlocked(t) ==
    /\ i' = [i EXCEPT ![t] = 1]
    /\ Goto(t, "probe")
    /\ release(hash(ablk[t]))
    /\ UNCHANGED <<dev, blockno, valid, refcnt, nreads, b>>

\* bget line 130: neither loop returned; the steal loop starts with the
\* bucket's lock still held.
BgetMiss(t) ==
    /\ i' = [i EXCEPT ![t] = 1]
    /\ Goto(t, "probe")
    /\ UNCHANGED <<locks, dev, blockno, valid, refcnt, nreads, b>>

\* BgetScan as it would be with the two loops in the other order.
BgetScanReuseFirst(t) ==
    LET k == hash(ablk[t])
        hit == FirstCached(k, adev[t], ablk[t])
        free == FirstFree(k)
    IN
    /\ Running(t) /\ pc[t] = "scan"
    /\ IF free # NIL THEN BgetReuse(t, free)
       ELSE IF hit # NIL THEN BgetHit(t, hit)
       ELSE BgetMiss(t)
    /\ UNCHANGED <<headout, out, sleeplk, data, adev, ablk, panicked, pins, uses, todo, load>>

\* bget lines 105-130: the two loops over the block's own bucket.
BgetScan(t) ==
    LET k == hash(ablk[t])
        hit == FirstCached(k, adev[t], ablk[t])
        free == FirstFree(k)
    IN
    /\ Running(t) /\ pc[t] = "scan"
    /\ IF hit # NIL THEN BgetHit(t, hit)
       ELSE IF free # NIL THEN BgetReuse(t, free)
       ELSE BgetMiss(t)
    /\ UNCHANGED <<headout, out, sleeplk, data, adev, ablk, panicked, pins, uses, todo, load>>

\* The steal loop's test as it would be if the loop stopped one bucket early.
StealLoopTestShort(t) == i[t] < NBUCKET - 1

\* The steal loop's test as it would be with i <= NBUCKET.
StealLoopTestLong(t) == i[t] <= NBUCKET

\* bget line 130: i < NBUCKET.
StealLoopTest(t) == i[t] < NBUCKET

\* bget lines 130-135 and 155: the loop test, the self-collision test and the
\* lock of the next bucket to steal from.
BgetProbe(t) ==
    /\ Running(t) /\ pc[t] = "probe"
    /\ IF ~StealLoopTest(t)
       THEN panic("bget: no buffers") /\ UNCHANGED <<locks, pc>>
       ELSE IF hash(ablk[t]) = hash(ablk[t] + i[t])
       THEN panic("no buffer") /\ UNCHANGED <<locks, pc>>
       ELSE /\ acquire(hash(ablk[t] + i[t]), t)
            /\ Goto(t, "steal_scan")
            /\ UNCHANGED panicked
    /\ UNCHANGED <<bufvars, adev, ablk, b, i, ghost, todo, load>>

\* BgetStealScan as it would be if the probed bucket's lock were released
\* right after remove(b).
BgetStealScanEarlyRelease(t) ==
    LET e == FirstFree(hash(ablk[t] + i[t])) IN
    /\ Running(t) /\ pc[t] = "steal_scan"
    /\ release(hash(ablk[t] + i[t]))
    /\ IF e # NIL
       THEN /\ b' = [b EXCEPT ![t] = e]
            /\ remove(e)
            /\ Goto(t, "steal_retag")
            /\ UNCHANGED i
       ELSE /\ i' = [i EXCEPT ![t] = @ + 1]
            /\ Goto(t, "probe")
            /\ UNCHANGED <<headout, out, b>>
    /\ UNCHANGED <<dev, blockno, valid, refcnt, sleeplk, data,
                   adev, ablk, panicked, ghost, todo, load>>

\* BgetStealScan as it would be without the release at line 153.
BgetStealScanKeepProbed(t) ==
    LET e == FirstFree(hash(ablk[t] + i[t])) IN
    /\ Running(t) /\ pc[t] = "steal_scan"
    /\ IF e # NIL
       THEN /\ b' = [b EXCEPT ![t] = e]
            /\ remove(e)
            /\ Goto(t, "steal_retag")
            /\ UNCHANGED i
       ELSE /\ i' = [i EXCEPT ![t] = @ + 1]
            /\ Goto(t, "probe")
            /\ UNCHANGED <<headout, out, b>>
    /\ UNCHANGED <<locks, dev, blockno, valid, refcnt, sleeplk, data,
                   adev, ablk, panicked, ghost, todo, load>>

\* bget lines 138-140 and 153: look for a buffer with refcnt 0 in the probed
\* bucket; remove(b) if there is one, else release the bucket and go on.
BgetStealScan(t) ==
    LET e == FirstFree(hash(ablk[t] + i[t])) IN
    /\ Running(t) /\ pc[t] = "steal_scan"
    /\ IF e # NIL
       THEN /\ b' = [b EXCEPT ![t] = e]
            /\ remove(e)
            /\ Goto(t, "steal_retag")
            /\ UNCHANGED <<locks, i>>
       ELSE /\ release(hash(ablk[t] + i[t]))
            /\ i' = [i EXCEPT ![t] = @ + 1]
            /\ Goto(t, "probe")
            /\ UNCHANGED <<headout, out, b>>
    /\ UNCHANGED <<dev, blockno, valid, refcnt, sleeplk, data,
                   adev, ablk, panicked, ghost, todo, load>>

\* bget lines 141-144.
BgetStealRetag(t) ==
    /\ Running(t) /\ pc[t] = "steal_retag"
    /\ Retag(b[t], adev[t], ablk[t])
    /\ Goto(t, "steal_put")
    /\ UNCHANGED <<locks, headout, out, sleeplk, data, adev, ablk, b, i,
                   panicked, pins, uses, todo, load>>

\* BgetStealPut as it would be with put(blockno + i, b): the buffer goes
\* back on the probed bucket's list.
BgetStealPutBack(t) ==
    /\ Running(t) /\ pc[t] = "steal_put"
    /\ put(ablk[t] + i[t], b[t])
    /\ locks' = [k \in Buckets |->
                   IF k \in {hash(ablk[t] + i[t]), hash(ablk[t])}
                   THEN NIL ELSE locks[k]]
    /\ Goto(t, "acquiresleep")
    /\ UNCHANGED <<dev, blockno, valid, refcnt, sleeplk, data,
                   adev, ablk, b, i, panicked, ghost, todo, load>>

\* bget lines 147-149: put(blockno, b) and the release of both locks.
BgetStealPut(t) ==
    /\ Running(t) /\ pc[t] = "steal_put"
    /\ put(ablk[t], b[t])
    /\ locks' = [k \in Buckets |->
                   IF k \in {hash(ablk[t] + i[t]), hash(ablk[t])}
                   THEN NIL ELSE locks[k]]
    /\ Goto(t, "acquiresleep")
    /\ UNCHANGED <<dev, blockno, valid, refcnt, sleeplk, data,
                   adev, ablk, b, i, panicked, ghost, todo, load>>

\* bget lines 109, 124, 150: acquiresleep(&b->lock); return b;
\* bread line 165: read the buffer from disk unless it is valid.
BgetAcquiresleep(t) ==
    /\ Running(t) /\ pc[t] = "acquiresleep"
    /\ sleeplk[b[t]] = NIL
    /\ sleeplk' = [sleeplk EXCEPT ![b[t]] = t]
    /\ IF valid[b[t]] = 0
       THEN /\ Goto(t, "bread_io")
            /\ UNCHANGED <<adev, ablk, b, i>>
       ELSE Return(t)
    /\ uses' = uses \cup {<<t, b[t], adev[t], ablk[t]>>}
    /\ UNCHANGED <<locks, headout, out, dev, blockno, valid, refcnt, data,
                   panicked, nreads, pins, todo, load>>

\* BreadIO as it would be without b->valid = 1.
BreadIONoValid(t) ==
    /\ Running(t) /\ pc[t] = "bread_io"
    /\ data' = [data EXCEPT ![b[t]] = <<dev[b[t]], blockno[b[t]]>>]
    /\ nreads' = [nreads EXCEPT ![b[t]] = @ + 1]
    /\ Return(t)
    /\ UNCHANGED <<locks, headout, out, dev, blockno, valid, refcnt, sleeplk,
                   panicked, pins, uses, todo, load>>

\* bread lines 166-169: virtio_disk_rw(b, 0) completes; b->valid = 1.
BreadIO(t) ==
    /\ Running(t) /\ pc[t] = "bread_io"
    /\ data' = [data EXCEPT ![b[t]] = <<dev[b[t]], blockno[b[t]]>>]
    /\ nreads' = [nreads EXCEPT ![b[t]] = @ + 1]
    /\ valid' = [valid EXCEPT ![b[t]] = 1]
    /\ Return(t)
    /\ UNCHANGED <<locks, headout, out, dev, blockno, refcnt, sleeplk,
                   panicked, pins, uses, todo, load>>

\* The buffers a caller may pass to bwrite and brelse.
MayPass(t, s) == load.careless \/ s \in Held(t)

\* A caller releases buffers at any time, or only after its last bread.
MayRelease(t) == load.again \/ todo[t] = {}

\* ---------------------------------------------------------------- bwrite
\* Bwrite as it would be without the holdingsleep test.
BwriteUnchecked(t, s) ==
    /\ Running(t) /\ pc[t] = "idle"
    /\ MayPass(t, s)
    /\ Goto(t, "bwrite_io")
    /\ b' = [b EXCEPT ![t] = s]
    /\ UNCHANGED <<locks, bufvars, adev, ablk, i, panicked, ghost, todo, load>>

\* bwrite(s), lines 176-178: the write is issued, or the kernel panics.
Bwrite(t, s) ==
    /\ Running(t) /\ pc[t] = "idle"
    /\ MayPass(t, s)
    /\ IF ~holdingsleep(s, t)
       THEN panic("bwrite") /\ Goto(t, "bwrite")
       ELSE Goto(t, "bwrite_io") /\ UNCHANGED panicked
    /\ b' = [b EXCEPT ![t] = s]
    /\ UNCHANGED <<locks, bufvars, adev, ablk, i, ghost, todo, load>>

\* virtio_disk_rw(b, 1) completes and bwrite returns.
BwriteIO(t) ==
    /\ Running(t) /\ pc[t] = "bwrite_io"
    /\ Return(t)
    /\ UNCHANGED <<locks, bufvars, panicked, ghost, todo, load>>

\* ---------------------------------------------------------------- brelse
\* brelse(s), lines 186-189.
Brelse(t, s) ==
    /\ Running(t) /\ pc[t] = "idle"
    /\ MayPass(t, s) /\ MayRelease(t)
    /\ IF ~holdingsleep(s, t)
       THEN /\ panic("brelse")
            /\ Goto(t, "brelse")
            /\ UNCHANGED <<sleeplk, uses>>
       ELSE /\ sleeplk' = [sleeplk EXCEPT ![s] = NIL]
            /\ uses' = {u \in uses : ~(u[1] = t /\ u[2] = s)}
            /\ Goto(t, "brelse_acquire")
            /\ UNCHANGED panicked
    /\ b' = [b EXCEPT ![t] = s]
    /\ UNCHANGED <<locks, headout, out, dev, blockno, valid, refcnt, data,
                   adev, ablk, i, nreads, pins, todo, load>>

\* BrelseAcquire as it would be without the acquire.
BrelseAcquireNoLock(t) ==
    /\ Running(t) /\ pc[t] = "brelse_acquire"
    /\ Goto(t, "brelse_dec")
    /\ UNCHANGED <<locks, bufvars, adev, ablk, b, i, panicked, ghost, todo, load>>

\* brelse line 191.
BrelseAcquire(t) ==
    /\ Running(t) /\ pc[t] = "brelse_acquire"
    /\ acquire(hash(blockno[b[t]]), t)
    /\ Goto(t, "brelse_dec")
    /\ UNCHANGED <<bufvars, adev, ablk, b, i, panicked, ghost, todo, load>>

\* BrelseDec as it would be if a buffer whose refcnt reaches 0 were moved to
\* the head of its list.
BrelseDecMove(t) ==
    LET s == b[t]
        k == hash(blockno[s])
        r == RemoveWalk(s, headout[k], headout[k], NBUF + 1)
    IN
    /\ Running(t) /\ pc[t] = "brelse_dec"
    /\ refcnt' = [refcnt EXCEPT ![s] = @ - 1]
    /\ IF refcnt[s] = 1
       THEN /\ out' = [r.o EXCEPT ![s] = r.h[k]]
            /\ headout' = [r.h EXCEPT ![k] = s]
       ELSE UNCHANGED <<headout, out>>
    /\ release(k)
    /\ Return(t)
    /\ UNCHANGED <<dev, blockno, valid, sleeplk, data,
                   panicked, ghost, todo, load>>

\* brelse lines 192-203.
BrelseDec(t) ==
    /\ Running(t) /\ pc[t] = "brelse_dec"
    /\ refcnt' = [refcnt EXCEPT ![b[t]] = @ - 1]
    /\ release(hash(blockno[b[t]]))
    /\ Return(t)
    /\ UNCHANGED <<headout, out, dev, blockno, valid, sleeplk, data,
                   panicked, ghost, todo, load>>

\* ---------------------------------------------------------------- bpin
\* bpin(s) line 208, called for a buffer the caller keeps locked.
BpinAcquire(t, s) ==
    /\ Running(t) /\ pc[t] = "idle"
    /\ s \in Held(t)
    /\ <<dev[s], blockno[s]>> \in load.pin
    /\ pins[s] < MaxPin
    /\ acquire(hash(blockno[s]), t)
    /\ Goto(t, "bpin_inc")
    /\ b' = [b EXCEPT ![t] = s]
    /\ UNCHANGED <<bufvars, adev, ablk, i, panicked, ghost, todo, load>>

\* bpin lines 209-210.
BpinInc(t) ==
    /\ Running(t) /\ pc[t] = "bpin_inc"
    /\ refcnt' = [refcnt EXCEPT ![b[t]] = @ + 1]
    /\ pins' = [pins EXCEPT ![b[t]] = @ + 1]
    /\ release(hash(blockno[b[t]]))
    /\ Return(t)
    /\ UNCHANGED <<headout, out, dev, blockno, valid, sleeplk, data,
                   panicked, nreads, uses, todo, load>>

\* ---------------------------------------------------------------- bunpin
\* bunpin(s) line 215, called to give back one bpin of buffer s.
BunpinAcquire(t, s) ==
    /\ Running(t) /\ pc[t] = "idle"
    /\ pins[s] > 0
    /\ pins' = [pins EXCEPT ![s] = @ - 1]
    /\ acquire(hash(blockno[s]), t)
    /\ Goto(t, "bunpin_dec")
    /\ b' = [b EXCEPT ![t] = s]
    /\ UNCHANGED <<bufvars, adev, ablk, i, panicked, nreads, uses, todo, load>>

\* BunpinDec as it would be without b->refcnt--.
BunpinDecNoDec(t) ==
    /\ Running(t) /\ pc[t] = "bunpin_dec"
    /\ release(hash(blockno[b[t]]))
    /\ Return(t)
    /\ UNCHANGED <<headout, out, dev, blockno, valid, refcnt, sleeplk, data,
                   panicked, ghost, todo, load>>

\* bunpin lines 216-217.
BunpinDec(t) ==
    /\ Running(t) /\ pc[t] = "bunpin_dec"
    /\ refcnt' = [refcnt EXCEPT ![b[t]] = @ - 1]
    /\ release(hash(blockno[b[t]]))
    /\ Return(t)
    /\ UNCHANGED <<headout, out, dev, blockno, valid, sleeplk, data,
                   panicked, ghost, todo, load>>

\* ---------------------------------------------------------------- system
Next ==
    \/ \E t \in Procs : \E p \in todo[t] : BgetAcquire(t, p[1], p[2])
    \/ \E t \in Procs : BgetScan(t)
    \/ \E t \in Procs : BgetProbe(t)
    \/ \E t \in Procs : BgetStealScan(t)
    \/ \E t \in Procs : BgetStealRetag(t)
    \/ \E t \in Procs : BgetStealPut(t)
    \/ \E t \in Procs : BgetAcquiresleep(t)
    \/ \E t \in Procs : BreadIO(t)
    \/ \E t \in Procs, s \in Bufs : Bwrite(t, s)
    \/ \E t \in Procs : BwriteIO(t)
    \/ \E t \in Procs, s \in Bufs : Brelse(t, s)
    \/ \E t \in Procs : BrelseAcquire(t)
    \/ \E t \in Procs : BrelseDec(t)
    \/ \E t \in Procs, s \in Bufs : BpinAcquire(t, s)
    \/ \E t \in Procs : BpinInc(t)
    \/ \E t \in Procs, s \in Bufs : BunpinAcquire(t, s)
    \/ \E t \in Procs : BunpinDec(t)

Spec == Init /\ [][Next]_vars

SpecSteal == InitSteal /\ [][Next]_vars

SpecPool == InitPool /\ [][Next]_vars

SpecMisuse == InitMisuse /\ [][Next]_vars

\* ---------------------------------------------------------------- remove
\* remove(s) called on its own, on bucket lists as binit and steals leave
\* them: every listed buffer is on the list of hash(blockno), in binit's
\* order, and the buffers outside U are on no list (as between remove and put
\* of a steal, one buffer per process at most).
Last(S) == IF S = {} THEN NIL ELSE CHOOSE x \in S : \A y \in S : y <= x

InitRemove ==
    /\ locks = [k \in Buckets |-> NIL]
    /\ dev = [s \in Bufs |-> 0]
    /\ valid = [s \in Bufs |-> 0]
    /\ refcnt = [s \in Bufs |-> 0]
    /\ sleeplk = [s \in Bufs |-> NIL]
    /\ data = [s \in Bufs |-> <<>>]
    /\ pc = [t \in Procs |-> "idle"]
    /\ adev = [t \in Procs |-> 0]
    /\ ablk = [t \in Procs |-> 0]
    /\ b = [t \in Procs |-> NIL]
    /\ i = [t \in Procs |-> 0]
    /\ panicked = ""
    /\ nreads = [s \in Bufs |-> 0]
    /\ pins = [s \in Bufs |-> 0]
    /\ uses = {}
    /\ blockno \in [Bufs -> Blocknos]
    /\ \E U \in SUBSET Bufs :
          /\ Cardinality(Bufs \ U) <= NPROC
          /\ headout = [k \in Buckets |->
                          Last({s \in U : hash(blockno[s]) = k})]
          /\ out = [s \in Bufs |->
                      IF s \in U
                      THEN Last({e \in U : /\ hash(blockno[e]) = hash(blockno[s])
                                           /\ e < s})
                      ELSE NIL]
    /\ todo = [t \in Procs |-> {}]
    /\ load = Load(Procs, 0, FALSE, {}, FALSE)

\* remove(s), lines 38-56, called by process t.
RemoveCall(t, s) ==
    /\ Running(t) /\ pc[t] = "idle"
    /\ remove(s)
    /\ b' = [b EXCEPT ![t] = s]
    /\ Goto(t, "removed")
    /\ UNCHANGED <<locks, dev, blockno, valid, refcnt, sleeplk, data,
                   adev, ablk, i, panicked, ghost, todo, load>>

\* The caller goes on after remove has returned.
RemoveReturn(t) ==
    /\ Running(t) /\ pc[t] = "removed"
    /\ Return(t)
    /\ UNCHANGED <<locks, bufvars, panicked, ghost, todo, load>>

NextRemove ==
    \/ \E t \in Procs, s \in Bufs : RemoveCall(t, s)
    \/ \E t \in Procs : RemoveReturn(t)

SpecRemove == InitRemove /\ [][NextRemove]_vars

\* ======================================================================
\* Properties
\* ======================================================================
SameBlock(s1, s2) == dev[s1] = dev[s2] /\ blockno[s1] = blockno[s2]

\* C1 Uniqueness: in every reachable state no two different buffers with
\* refcnt > 0 carry the same (dev, blockno), and no two processes that bget
\* has given a buffer for the same block (waiting for its sleeplock, reading
\* it, or using it) were given different buffers.
Given ==
    uses \cup {<<t, b[t], adev[t], ablk[t]>> :
                  t \in {u \in Procs : pc[u] \in {"acquiresleep", "bread_io"}}}

Uniqueness ==
    /\ \A s1, s2 \in Bufs :
          (s1 # s2 /\ refcnt[s1] > 0 /\ refcnt[s2] > 0) => ~SameBlock(s1, s2)
    /\ \A g1, g2 \in Given :
          (g1[3] = g2[3] /\ g1[4] = g2[4]) => g1[2] = g2[2]

\* Two processes have asked for the same block at once: one holds the buffer,
\* the other waits for its sleeplock, and other buffers are referenced too.
UniquenessWitness ==
    \E t1, t2 \in Procs, s \in Bufs :
        /\ t1 # t2 /\ sleeplk[s] = t1 /\ refcnt[s] >= 2
        /\ pc[t2] = "acquiresleep" /\ b[t2] = s
        /\ adev[t2] = dev[s] /\ ablk[t2] = blockno[s]
        /\ \E s2 \in Bufs : s2 # s /\ refcnt[s2] > 0

\* C2 Acquire postcondition and exclusivity: from the return of bget(d, n)
\* with buffer s to process t until t's brelse(s), s is tagged (d, n), its
\* refcnt is at least 1, t holds its sleeplock, and no other process is in
\* that interval for s.
AcquirePost ==
    /\ \A u \in uses :
          /\ dev[u[2]] = u[3] /\ blockno[u[2]] = u[4]
          /\ refcnt[u[2]] >= 1
          /\ sleeplk[u[2]] = u[1]
    /\ \A u1, u2 \in uses : u1[2] = u2[2] => u1 = u2

\* bget has returned buffers to both processes, one of them recycled from
\* another bucket.
AcquirePostWitness ==
    \E u1, u2 \in uses :
        /\ u1[1] # u2[1]
        /\ pc[u1[1]] = "idle" /\ pc[u2[1]] = "idle"
        /\ hash(u1[4]) # hash(0)

\* The bucket whose spinlock process t is spinning for, or -1.
Wants(t) ==
    IF pc[t] = "probe" /\ StealLoopTest(t)
       /\ hash(ablk[t]) # hash(ablk[t] + i[t])
    THEN hash(ablk[t] + i[t])
    ELSE IF pc[t] \in {"brelse_acquire"} THEN hash(blockno[b[t]])
    ELSE -1

\* C3 Deadlock freedom: there is no set of processes each of which spins for
\* a bucket lock held by a process of the set.
DeadlockFree ==
    ~ \E S \in SUBSET Procs :
        /\ S # {}
        /\ \A t \in S : /\ panicked = ""
                        /\ Wants(t) # -1
                        /\ locks[Wants(t)] \in S

\* C4 Exactly-once binding under contention: a buffer is read from the disk at
\* most once while it keeps its tag, a process that bread has returned it to
\* finds it read exactly once, and all processes given a buffer for the block
\* were given the same one.
BreadDone(u) == ~(pc[u[1]] = "bread_io" /\ b[u[1]] = u[2])

ExactlyOnce ==
    /\ \A s \in Bufs : nreads[s] <= 1
    /\ \A u \in uses : BreadDone(u) => nreads[u[2]] = 1
    /\ \A g1, g2 \in Given :
          (g1[3] = g2[3] /\ g1[4] = g2[4]) => g1[2] = g2[2]

\* Two processes asked for a block that was not cached: the buffer was read
\* once, one process has it from bread and the other waits for it.
ExactlyOnceWitness ==
    \E t1, t2 \in Procs, s \in Bufs :
        /\ t1 # t2
        /\ \E u \in uses : u[1] = t1 /\ u[2] = s /\ BreadDone(u)
        /\ pc[t2] = "acquiresleep" /\ b[t2] = s
        /\ refcnt[s] = 2 /\ nreads[s] = 1
        /\ hash(blockno[s]) # hash(0)

\* C5 bread returns the block's contents: a buffer that bread has returned
\* for (d, n) is valid and holds the data read from (d, n), and every step
\* that changes a buffer's dev or blockno leaves it with valid = 0.
BreadContents ==
    /\ [](\A u \in uses :
            BreadDone(u) => valid[u[2]] = 1 /\ data[u[2]] = <<u[3], u[4]>>)
    /\ [][\A s \in Bufs :
            (dev'[s] # dev[s] \/ blockno'[s] # blockno[s]) => valid'[s] = 0]_vars

\* bread has returned a buffer that held another block's data before.
BreadContentsWitness ==
    \E u \in uses, t \in Procs :
        /\ BreadDone(u) /\ u[3] = 1
        /\ pc[t] = "bread_io" /\ b[t] # u[2]
        /\ data[b[t]] # <<>> /\ data[b[t]] # <<adev[t], ablk[t]>>

\* C6 Cache hit after release: a buffer with valid = 1 keeps its tag and
\* valid = 1 unless a bget that found it with refcnt 0 recycles it; a bget
\* for its block takes it in the first loop, and bread does not read it again.
CacheHit ==
    /\ [][\A s \in Bufs :
            (valid[s] = 1 /\ (dev'[s] # dev[s] \/ blockno'[s] # blockno[s]
                              \/ valid'[s] # 1))
            => (refcnt[s] = 0 /\ refcnt'[s] = 1 /\ valid'[s] = 0
                /\ \E t \in Procs : /\ b'[t] = s
                                    /\ pc[t] \in {"scan", "steal_retag"}
                                    /\ pc'[t] # pc[t])]_vars
    /\ [][\A t \in Procs, s \in Bufs :
            (pc[t] = "scan" /\ pc'[t] # "scan" /\ valid[s] = 1
             /\ dev[s] = adev[t] /\ blockno[s] = ablk[t])
            => (pc'[t] = "acquiresleep" /\ b'[t] = s
                /\ refcnt'[s] = refcnt[s] + 1 /\ valid'[s] = 1)]_vars
    /\ [][\A t \in Procs :
            (pc[t] = "acquiresleep" /\ pc'[t] # "acquiresleep"
             /\ valid[b[t]] = 1)
            => (pc'[t] = "idle" /\ nreads' = nreads /\ data' = data)]_vars

\* A block was read and released by everyone (valid = 1, no reference left),
\* and bget's first loop has just found it again for a process.
CacheHitWitness ==
    \E t \in Procs :
        /\ pc[t] = "acquiresleep"
        /\ valid[b[t]] = 1 /\ nreads[b[t]] = 1
        /\ refcnt[b[t]] = 1 /\ pins[b[t]] = 0
        /\ sleeplk[b[t]] = NIL
        /\ hash(blockno[b[t]]) # hash(0)

\* C7 Pool bound: for a single caller, bget panics only with
\* "bget: no buffers" and only when every buffer has refcnt > 0, and a bget
\* for a block that is not cached while every buffer has refcnt > 0 ends in
\* that panic without returning a buffer.
Searching(t) == pc[t] \in {"scan", "probe", "steal_scan"}

AllReferenced == \A s \in Bufs : refcnt[s] > 0

PoolBound ==
    /\ [](panicked # "" => panicked = "bget: no buffers" /\ AllReferenced)
    /\ [][\A t \in Procs :
            (/\ Searching(t) /\ AllReferenced
             /\ \A s \in Bufs : ~(dev[s] = adev[t] /\ blockno[s] = ablk[t]))
            => \/ pc'[t] \in {"scan", "probe", "steal_scan"} /\ b'[t] = NIL
               \/ panicked' = "bget: no buffers"]_vars

\* The caller holds NBUF distinct blocks, spread over all the buckets, and
\* its next bget has ended in the panic.
PoolBoundWitness ==
    /\ panicked = "bget: no buffers"
    /\ Cardinality(uses) = NBUF
    /\ \A u1, u2 \in uses : u1[2] = u2[2] => u1 = u2
    /\ \A k \in Buckets : \E u \in uses : hash(u[4]) = k

\* C8 Refcount accounting: a buffer's refcnt is the number of acquisitions of
\* it that brelse has not yet undone, processes waiting for its sleeplock
\* included, plus the number of bpin calls that bunpin has not yet undone.
Acquired(s) ==
    {t \in Procs : /\ pc[t] \in {"steal_put", "acquiresleep",
                                 "brelse_acquire", "brelse_dec"}
                   /\ b[t] = s}
    \cup {u[1] : u \in {v \in uses : v[2] = s}}

Pinned(s) ==
    pins[s] + Cardinality({t \in Procs : pc[t] = "bunpin_dec" /\ b[t] = s})

RefcntAccounting ==
    \A s \in Bufs : /\ refcnt[s] = Cardinality(Acquired(s)) + Pinned(s)
                    /\ refcnt[s] >= 0

\* A buffer was pinned and then released by its only holder: the pin alone
\* keeps refcnt at 1 while a bget looks for a buffer to recycle.
RefcntAccountingWitness ==
    \E s \in Bufs, t \in Procs :
        /\ pins[s] = 1 /\ refcnt[s] = 1
        /\ Acquired(s) = {} /\ sleeplk[s] = NIL
        /\ pc[t] = "scan" /\ InBucket(s, hash(ablk[t]))
        /\ <<adev[t], ablk[t]>> # <<dev[s], blockno[s]>>

\* C9 Content-lock precondition: a bwrite or brelse of a buffer whose
\* sleeplock the caller does not hold panics, and that step issues no write
\* and changes no buffer, no list and no lock.
CallsWithout(t, s) ==
    /\ pc[t] = "idle" /\ sleeplk[s] # t
    /\ pc'[t] \in {"bwrite", "bwrite_io", "brelse", "brelse_acquire"}
    /\ b'[t] = s

LockPrecondition ==
    /\ [][\A t \in Procs, s \in Bufs :
            CallsWithout(t, s)
            => /\ pc'[t] \in {"bwrite", "brelse"}
               /\ panicked' = pc'[t]
               /\ UNCHANGED <<locks, bufvars, ghost>>]_vars
    /\ [](\A t \in Procs : pc[t] = "bwrite_io" => sleeplk[b[t]] = t)
    /\ [](\A t \in Procs : pc[t] \in {"bwrite", "brelse"} => panicked = pc[t])

\* brelse of a buffer that another process holds has panicked; the holder
\* still has the sleeplock and its reference.
LockPreconditionWitness ==
    \E t \in Procs :
        /\ panicked = "brelse" /\ pc[t] = "brelse"
        /\ sleeplk[b[t]] \notin {t, NIL}
        /\ refcnt[b[t]] = 1
        /\ \E u \in uses : u[2] = b[t] /\ u[1] = sleeplk[b[t]]

\* C10 Migration atomicity: a buffer is in at most one bucket; a bucket whose
\* lock is free or held by a process that is not moving a buffer holds
\* exactly the buffers whose blockno hashes to it; a buffer in no bucket is
\* being moved by a process that holds the locks of both buckets.
Consistent(k) == \A s \in Bufs : InBucket(s, k) <=> hash(blockno[s]) = k

Migrating(t) == pc[t] \in {"steal_retag", "steal_put"}

MigrationAtomic ==
    /\ \A s \in Bufs : Cardinality({k \in Buckets : InBucket(s, k)}) <= 1
    /\ \A k \in Buckets :
          (locks[k] = NIL \/ ~Migrating(locks[k])) => Consistent(k)
    /\ \A s \in Bufs :
          (\A k \in Buckets : ~InBucket(s, k))
          => \E t \in Procs : /\ Migrating(t) /\ b[t] = s
                              /\ locks[hash(ablk[t])] = t
                              /\ locks[hash(ablk[t] + i[t])] = t

\* A buffer is out of its old bucket and already carries its new tag while
\* another process spins for the lock of one of the two buckets.
MigrationAtomicWitness ==
    \E t, u \in Procs :
        /\ pc[t] = "steal_put"
        /\ \A k \in Buckets : ~InBucket(b[t], k)
        /\ Wants(u) # -1 /\ locks[Wants(u)] = t

\* The number of members of the lists of buckets 0..k.
RECURSIVE TotalLen(_)
TotalLen(k) == IF k < 0 THEN 0 ELSE Len(BucketList(k)) + TotalLen(k - 1)

Unlisted == {s \in Bufs : \A k \in Buckets : ~InBucket(s, k)}

\* C11 Bucket membership: every list ends (is acyclic) and holds no buffer
\* twice, no buffer is in two lists, and the buffers in no list are exactly
\* those a bget is moving between remove and put; so whenever no bget is
\* there, every buffer is in exactly one list and the lists have NBUF members.
BucketMembership ==
    /\ \A k \in Buckets :
          /\ Len(BucketList(k)) <= NBUF
          /\ \A j, m \in 1..Len(BucketList(k)) :
                BucketList(k)[j] = BucketList(k)[m] => j = m
    /\ \A s \in Bufs : Cardinality({k \in Buckets : InBucket(s, k)}) <= 1
    /\ Unlisted = {b[t] : t \in {u \in Procs : Migrating(u)}}
    /\ (\A t \in Procs : ~Migrating(t))
          => /\ \A s \in Bufs :
                   Cardinality({k \in Buckets : InBucket(s, k)}) = 1
             /\ TotalLen(NBUCKET - 1) = NBUF

\* No bget is between remove and put, and a steal has put a buffer that was
\* last read in another bucket on a list that was not empty.
BucketMembershipWitness ==
    /\ \A t \in Procs : ~Migrating(t)
    /\ \E s \in Bufs :
          /\ data[s] # <<>> /\ hash(data[s][2]) # hash(blockno[s])
          /\ InBucket(s, hash(blockno[s]))
          /\ out[s] # NIL
    /\ \E k \in Buckets : k # hash(0) /\ headout[k] # NIL

\* The process that takes the step.
Steps(t) == t \in Procs /\ pc'[t] # pc[t]

\* C12 as stated: every write to a buffer's dev, blockno, valid or refcnt is
\* made by a process holding the lock of the bucket whose list contains the
\* buffer.
MetadataUnderBucketLock ==
    [][\A s \in Bufs :
         (dev'[s] # dev[s] \/ blockno'[s] # blockno[s]
          \/ valid'[s] # valid[s] \/ refcnt'[s] # refcnt[s])
         => \E k \in Buckets : InBucket(s, k) /\ Steps(locks[k])]_vars

\* C12 Metadata protection: every write to a buffer's dev, blockno or refcnt,
\* and every reset of valid to 0, is made by a process holding the lock of
\* the bucket of the buffer's blockno before and after the write; valid is
\* set to 1 by the process that holds the buffer's sleeplock and a reference
\* to it, holding no bucket lock.
MetadataProtection ==
    /\ [][\A s \in Bufs :
            (dev'[s] # dev[s] \/ blockno'[s] # blockno[s]
             \/ refcnt'[s] # refcnt[s] \/ (valid[s] = 1 /\ valid'[s] = 0))
            => \E t \in Procs : /\ Steps(t)
                                /\ locks[hash(blockno[s])] = t
                                /\ locks[hash(blockno'[s])] = t]_vars
    /\ [][\A s \in Bufs :
            (valid[s] = 0 /\ valid'[s] = 1)
            => \E t \in Procs : /\ Steps(t) /\ pc[t] = "bread_io" /\ b[t] = s
                                /\ sleeplk[s] = t /\ refcnt[s] >= 1
                                /\ \A k \in Buckets : locks[k] # t]_vars

\* bread is about to set valid while another process holds the lock of the
\* buffer's bucket and scans it.
MetadataProtectionWitness ==
    \E t, u \in Procs :
        /\ pc[t] = "bread_io" /\ valid[b[t]] = 0
        /\ pc[u] = "scan" /\ locks[hash(blockno[b[t]])] = u
        /\ InBucket(b[t], hash(ablk[u]))

\* C13 Bucket-of-slot: every buffer that no bget is moving between remove
\* and put is on the list of bucket hash(blockno); so the list remove(b)
\* searches is the probed list bget found b on, and the lock brelse, bpin and
\* bunpin hold while they change refcnt is the lock of the list holding b.
BucketOfSlot ==
    /\ \A s \in Bufs :
          (\A t \in Procs : ~(Migrating(t) /\ b[t] = s))
          => InBucket(s, hash(blockno[s]))
    /\ \A t \in Procs :
          pc[t] = "steal_scan"
          => \A s \in Bufs : InBucket(s, hash(ablk[t] + i[t]))
                             => hash(blockno[s]) = hash(ablk[t] + i[t])
    /\ \A t \in Procs :
          pc[t] \in {"brelse_dec", "bpin_inc", "bunpin_dec"}
          => /\ locks[hash(blockno[b[t]])] = t
             /\ InBucket(b[t], hash(blockno[b[t]]))

\* bunpin holds the lock of a bucket other than hash(0) for a buffer that a
\* steal moved there, while a bget is about to call remove on a buffer of
\* another bucket.
BucketOfSlotWitness ==
    \E t, u \in Procs :
        /\ pc[t] = "bunpin_dec" /\ hash(blockno[b[t]]) # hash(0)
        /\ pc[u] = "steal_scan" /\ FirstFree(hash(ablk[u] + i[u])) # NIL
        /\ hash(ablk[u]) # hash(0)

\* The bucket locks process t holds.
HeldLocks(t) == {k \in Buckets : locks[k] = t}

\* C14 No bucket lock across blocking operations: a process that is in
\* acquiresleep or in virtio_disk_rw holds no bucket lock, and every step
\* that takes a process into acquiresleep leaves it without one.
NoLockWhileBlocking ==
    /\ [](\A t \in Procs :
            pc[t] \in {"acquiresleep", "bread_io", "bwrite_io"}
            => HeldLocks(t) = {})
    /\ [][\A t \in Procs :
            (pc[t] # "acquiresleep" /\ pc'[t] = "acquiresleep")
            => /\ pc[t] \in {"scan", "steal_put"}
               /\ HeldLocks(t) # {}
               /\ \A k \in Buckets : locks'[k] # t]_vars

\* A process sleeps in acquiresleep for a buffer whose holder is in
\* virtio_disk_rw, while a third party could take any bucket lock.
NoLockWhileBlockingWitness ==
    \E t, u \in Procs :
        /\ pc[t] = "acquiresleep" /\ sleeplk[b[t]] = u
        /\ pc[u] \in {"bread_io", "bwrite_io"} /\ b[u] = b[t]
        /\ hash(blockno[b[t]]) # hash(0)
        /\ \A k \in Buckets : locks[k] = NIL

\* C15 No recycling of a referenced buffer: a step leaves the dev, the
\* blockno and the list membership of every buffer with refcnt > 0 as they
\* are and does not reset its valid (the one change is the put by which the
\* bget that claimed the buffer ends its move); a buffer's tag changes only
\* in a step that finds refcnt 0 and leaves refcnt 1, and at most one bget
\* is moving a given buffer.
NoRecycleReferenced ==
    /\ [][\A s \in Bufs :
            refcnt[s] > 0
            => /\ dev'[s] = dev[s] /\ blockno'[s] = blockno[s]
               /\ ~(valid[s] = 1 /\ valid'[s] = 0)
               /\ \/ \A k \in Buckets : InBucket(s, k)' <=> InBucket(s, k)
                  \/ \E t \in Procs : /\ pc[t] = "steal_put" /\ b[t] = s
                                      /\ s \in Unlisted
                                      /\ InBucket(s, hash(blockno[s]))']_vars
    /\ [][\A s \in Bufs :
            (dev'[s] # dev[s] \/ blockno'[s] # blockno[s])
            => refcnt[s] = 0 /\ refcnt'[s] = 1]_vars
    /\ [](\A t \in Procs : pc[t] = "steal_retag" => refcnt[b[t]] = 0)
    /\ [](\A t, u \in Procs : (Migrating(t) /\ Migrating(u) /\ b[t] = b[u])
                              => t = u)

\* A steal scans a bucket in which a buffer is kept only by a pin: the
\* buffer is not the one the scan takes.
NoRecycleReferencedWitness ==
    \E t \in Procs, s \in Bufs :
        /\ pc[t] = "steal_scan" /\ InBucket(s, hash(ablk[t] + i[t]))
        /\ pins[s] = 1 /\ refcnt[s] = 1 /\ sleeplk[s] = NIL
        /\ valid[s] = 1
        /\ FirstFree(hash(ablk[t] + i[t])) # s

\* C16 Unlink of a non-member is fatal: a call of remove(s) for a buffer s
\* that is not on the list of bucket hash(s.blockno) panics.
RemoveNonMemberFatal ==
    [][\A t \in Procs, s \in Bufs :
         (/\ pc[t] = "idle" /\ pc'[t] = "removed" /\ b'[t] = s
          /\ ~InBucket(s, hash(blockno[s])))
         => panicked' # ""]_vars

Ahead(k, e) ==
    LET L == BucketList(k)
    IN {L[j] : j \in {m \in 1..Len(L) : \E n \in (m + 1)..Len(L) : L[n] = e}}

Matches(s, t) == dev[s] = adev[t] /\ blockno[s] = ablk[t]

\* The list L without e.
Without(L, e) ==
    LET Keep(x) == x # e IN SelectSeq(L, Keep)

\* The scan of bget's own bucket by t: the first matching buffer if there is
\* one, else the first buffer with refcnt 0, else the steal loop from i = 1.
OwnBucketPhase(t) ==
    LET k == hash(ablk[t])
        Hit == {s \in Bufs : InBucket(s, k) /\ Matches(s, t)}
        Free == {s \in Bufs : InBucket(s, k) /\ refcnt[s] = 0}
    IN /\ UNCHANGED <<headout, out>>
       /\ IF Hit # {}
          THEN /\ pc'[t] = "acquiresleep" /\ b'[t] \in Hit
               /\ Ahead(k, b'[t]) \cap Hit = {}
               /\ UNCHANGED <<dev, blockno, valid>>
          ELSE IF Free # {}
          THEN /\ pc'[t] = "acquiresleep" /\ b'[t] \in Free
               /\ Ahead(k, b'[t]) \cap Free = {}
               /\ dev'[b'[t]] = adev[t] /\ blockno'[b'[t]] = ablk[t]
          ELSE /\ pc'[t] = "probe" /\ i'[t] = 1
               /\ UNCHANGED <<dev, blockno, valid, refcnt>>

\* The scan of the probed bucket by t: its first buffer with refcnt 0 is
\* unlinked, or the next offset is tried.
ProbedBucketPhase(t) ==
    LET k == hash(ablk[t] + i[t])
        Free == {s \in Bufs : InBucket(s, k) /\ refcnt[s] = 0}
    IN /\ k = (hash(ablk[t]) + i[t]) % NBUCKET
       /\ i[t] \in 1..(NBUCKET - 1)
       /\ \A s \in Bufs : InBucket(s, hash(ablk[t])) => refcnt[s] > 0
       /\ IF Free # {}
          THEN /\ pc'[t] = "steal_retag" /\ b'[t] \in Free
               /\ Ahead(k, b'[t]) \cap Free = {}
               /\ BucketList(k)' = Without(BucketList(k), b'[t])
               /\ \A m \in Buckets \ {k} : BucketList(m)' = BucketList(m)
          ELSE /\ pc'[t] = "probe" /\ i'[t] = i[t] + 1
               /\ UNCHANGED <<headout, out>>

BgetLockDiscipline ==
    \A t \in Procs :
        /\ pc[t] \in {"scan", "probe"} => HeldLocks(t) = {hash(ablk[t])}
        /\ pc[t] \in {"steal_scan", "steal_retag", "steal_put"}
              => /\ HeldLocks(t) = {hash(ablk[t]), hash(ablk[t] + i[t])}
                 /\ Cardinality(HeldLocks(t)) = 2
        /\ pc[t] \in {"acquiresleep", "bread_io", "idle"} => HeldLocks(t) = {}

\* A bget found no buffer with refcnt 0 at its first offset and has given
\* that bucket's lock back: another process holds it now.
BgetLockDisciplineWitness ==
    \E t, u \in Procs :
        /\ pc[t] = "probe" /\ i[t] = 2
        /\ locks[hash(ablk[t])] = t
        /\ locks[hash(ablk[t] + 1)] = u /\ u # t

\* The buckets the steal loop of bget(., n) has probed before offset j.
Probed(n, j) == {hash(n + m) : m \in 1..(j - 1)}

\* C20 Probe coverage: for every block number n the offsets 1..NBUCKET-1
\* give NBUCKET-1 different buckets, none of them hash(n); so a bget in its
\* steal loop has probed i-1 different other buckets, is at a new one, and
\* has probed all of them when the loop ends; the kernel never panics with
\* "no buffer".
ProbeCoverage ==
    /\ \A n \in 0..MaxProbed :
          /\ \A j \in 1..(NBUCKET - 1) : hash(n) # hash(n + j)
          /\ Probed(n, NBUCKET) = Buckets \ {hash(n)}
          /\ \A j, m \in 1..(NBUCKET - 1) : hash(n + j) = hash(n + m) => j = m
    /\ panicked # "no buffer"
    /\ \A t \in Procs :
          pc[t] \in {"probe", "steal_scan", "steal_retag", "steal_put"}
          => /\ i[t] \in 1..NBUCKET
             /\ Cardinality(Probed(ablk[t], i[t])) = i[t] - 1
             /\ hash(ablk[t]) \notin Probed(ablk[t], i[t])
             /\ i[t] < NBUCKET
                   => hash(ablk[t] + i[t])
                         \notin Probed(ablk[t], i[t]) \cup {hash(ablk[t])}
             /\ i[t] = NBUCKET
                   => Probed(ablk[t], i[t]) = Buckets \ {hash(ablk[t])}

\* The steal loop has gone through all its offsets and bget has panicked
\* with "bget: no buffers"; one of the buffers is kept by a pin alone.
ProbeCoverageWitness ==
    \E t \in Procs, s \in Bufs :
        /\ panicked = "bget: no buffers"
        /\ pc[t] = "probe" /\ i[t] = NBUCKET
        /\ pins[s] = 1 /\ refcnt[s] = 1 /\ sleeplk[s] = NIL

====
